---- MODULE Spec2Model ----
(***************************************************************************)
(* Model of the movie MCP service (examples/servers/src/common/            *)
(* movie_service.rs): the city-id cache behind a tokio Mutex, the          *)
(* populate step run at session initialization, the name -> id scan, and   *)
(* the tool operations that chain HTTP fetches.  Every tool call runs as   *)
(* one task; the tasks interleave at the await points of the code.         *)
(***************************************************************************)
EXTENDS Integers, Sequences, FiniteSets, TLC

\* ------------------------------------------------------------------ bounds

\* Longest `cts` array the provider serves in the model.
MaxLen == 2

\* The concurrently running request tasks.
Tasks == {"t1", "t2"}

\* ------------------------------------------------------------- option type

None == <<>>
Some(x) == <<x>>
Unwrap(o) == o[1]

\* ---------------------------------------------------------------- strings
\* A string is a sequence of characters.

\* str::contains: pat occurs in s as a contiguous run (the empty pattern
\* occurs in every string).
Contains(s, pat) ==
    \E i \in 1..(Len(s) + 1) :
        /\ i + Len(pat) - 1 <= Len(s)
        /\ SubSeq(s, i, i + Len(pat) - 1) = pat

sh == <<"s", "h">>
s_ == <<"s">>
bj == <<"b", "j">>
shCity == <<"s", "h", "c">>

\* City names that occur as `nm` of catalog entries.
EntryNames == {sh, s_}

\* Names a caller passes, or the reverse-geocode endpoint reports.
InputNames == {shCity, s_, bj}

\* ---------------------------------------------------------------- integers
\* An i64 is held as q * 2^32 + r with r its low 32 bits read as a signed
\* 32-bit number, so that every value of the model stays a machine integer.

I64(q, r) == [q |-> q, r |-> r]

\* A conversion that clamps to the i32 range instead of wrapping.
AsI32_saturating(x) ==
    IF x.q = 0 THEN x.r ELSE IF x.q > 0 THEN 2147483647 ELSE -2147483647

\* `city_id as i32`: the low 32 bits, reinterpreted as signed.
AsI32(x) == x.r

\* Does the i64 lie in the i32 range?
FitsI32(x) == x.q = 0

\* Ids that occur in catalog entries: two ordinary ones, and two beyond i32,
\* 2^32 + 10 and 2^32 - 5.
EntryIds == {I64(0, 10), I64(0, 20), I64(1, 10), I64(1, -5)}

\* ------------------------------------------------------------ JSON catalog
\* A catalog entry: city["nm"].as_str() and city["id"].as_i64(), each None
\* when the key is absent or holds another type.
Entries ==
    [nm : {Some(n) : n \in EntryNames}, id : {Some(i) : i \in EntryIds}]
    \cup {[nm |-> None, id |-> Some(I64(0, 20))],
          [nm |-> Some(sh), id |-> None]}

\* A Movie born with an empty city array instead of an empty object.
EmptyObject_emptyArray == [tag |-> "catalog", cts |-> <<>>]

\* json!({}) : the value Movie::new stores.
EmptyObject == [tag |-> "empty_object", cts |-> <<>>]

\* A decodable JSON body without a `cts` array (an error document, say).
NoCtsDocument == [tag |-> "no_cts", cts |-> <<>>]

Catalog(es) == [tag |-> "catalog", cts |-> es]

SeqsUpTo(S, n) == UNION {[1..k -> S] : k \in 0..n}

\* The JSON documents the cities endpoint may answer with.
CatalogDocuments ==
    {Catalog(es) : es \in SeqsUpTo(Entries, MaxLen)} \cup {NoCtsDocument}

\* city_data["cts"].as_array()
CtsArray(c) == IF c.tag = "catalog" THEN Some(c.cts) ELSE None

\* The documents the cities endpoint serves while request tasks race: for
\* every length up to MaxLen a catalog whose last entry is the only one a
\* short name matches, and a document without a city array.
RacingCatalog(k) ==
    Catalog([i \in 1..k |->
                IF i < k THEN [nm |-> Some(sh), id |-> Some(I64(0, 10))]
                         ELSE [nm |-> Some(s_), id |-> Some(I64(1, 20))]])

RacingDocuments == {RacingCatalog(k) : k \in 0..MaxLen} \cup {NoCtsDocument}

\* ------------------------------------------------------------- coordinates
\* An f64 read from a payload is <<"f64", x>>; 0 stands for 0.0.
F64(x) == <<"f64", x>>

\* undrift_gps::gcj_to_wgs, an external pure function: its two outputs are
\* kept as terms over its inputs.
gcj_to_wgs(lat, lng) == << <<"wgs.lat", lat, lng>>, <<"wgs.lng", lat, lng>> >>

\* ----------------------------------------------------- cinema-detail JSON
\* top : the kind of the document itself; data : the kind of its "data"
\* member; lat, lng : data.lat / data.lng as_f64(); rest : the other members.
CinemaJson(top, data, lat, lng) ==
    [top |-> top, data |-> data, lat |-> lat, lng |-> lng, rest |-> "members"]

DetailDocuments ==
    { CinemaJson("object", "object", Some(F64(31)), Some(F64(121))),
      CinemaJson("object", "object", None, Some(F64(121))),
      CinemaJson("object", "absent", None, None),
      CinemaJson("object", "scalar", None, None),
      CinemaJson("array", "absent", None, None) }

\* cinema_json["data"]["lat"] = ...; cinema_json["data"]["lng"] = ...
\* serde_json's IndexMut by key turns null into an object, inserts into an
\* object, and panics on every other kind of value.
IndexMutPanics(j) ==
    \/ j.top \notin {"object", "null"}
    \/ j.top = "object" /\ j.data \notin {"object", "null", "absent"}

SetCoordinates(j, lat, lng) ==
    [j EXCEPT !.top = "object", !.data = "object",
              !.lat = Some(lat), !.lng = Some(lng)]

\* --------------------------------------------------------------- HTTP
\* A response body as text: raw names the text, json is what
\* serde_json::from_str makes of it (None: not JSON).
Text(raw, json) == [raw |-> raw, json |-> json]

\* serde_json::to_string
to_string(j) == Text("serialized", Some(j))

NotJsonText == Text("not json", None)

\* What reqwest hands back for one GET: send() fails, or a response with a
\* status and a body; body None means the body cannot be read as text.
SendFailed == [send |-> "err", status |-> 0, body |-> None]

HttpResponses(texts) ==
    {SendFailed} \cup
    [send : {"ok"}, status : {200, 500},
     body : {None} \cup {Some(x) : x \in texts}]

LatLngTexts ==
    {Text("latlng", Some([city |-> Some(n)])) : n \in InputNames}
    \cup {Text("latlng", Some([city |-> None])), NotJsonText}

DetailTexts == {Text("detail", Some(j)) : j \in DetailDocuments} \cup {NotJsonText}

CitiesTexts(docs) == {Text("cities", Some(d)) : d \in docs} \cup {NotJsonText}

Get(endpoint, params) == [endpoint |-> endpoint, params |-> params]

\* ErrorData::invalid_request(msg, None) / ErrorData::invalid_params(msg, None)
invalid_request(msg) ==
    [kind |-> "err", code |-> "invalid_request", message |-> msg,
     data |-> None, content |-> <<>>]
invalid_params(msg) ==
    [kind |-> "err", code |-> "invalid_params", message |-> msg,
     data |-> None, content |-> <<>>]

\* Ok(v) of an inner function, and CallToolResult::success(contents).
Ok(v) ==
    [kind |-> "ok", code |-> "", message |-> "", data |-> None, content |-> v]
NoResult ==
    [kind |-> "none", code |-> "", message |-> "", data |-> None, content |-> <<>>]
Panicked ==
    [kind |-> "panic", code |-> "", message |-> "", data |-> None, content |-> <<>>]

\* send_request: the status is not looked at.
send_request(resp) ==
    IF resp.send = "err" THEN invalid_request("Failed to send request")
    ELSE IF resp.body = None THEN invalid_request("Failed to get response text")
    ELSE Ok(Unwrap(resp.body))

\* get_all_city_id: send(), then response.json().
get_all_city_id(resp) ==
    IF resp.send = "err" THEN invalid_request("response error")
    ELSE IF resp.body = None \/ Unwrap(resp.body).json = None
         THEN invalid_request("response error")
    ELSE Ok(Unwrap(Unwrap(resp.body).json))

\* ------------------------------------------------------------------ state

VARIABLES
    city_id,    \* Movie.city_id: the JSON value behind the Mutex
    lock,       \* the task holding the MutexGuard, or "free"
    waitq,      \* tasks suspended in lock().await, in arrival order
    pc,         \* per task: the await point it is suspended at, or "idle"
    call,       \* per task: the operation being served and its parameters
    loc,        \* per task: the local variables of the running operation
    result,     \* per task: what the last operation returned to the caller
    gets,       \* per task: the GET requests the running operation issued
    log,        \* per task: the tracing::error! events of the operation
    population  \* init_movie so far: "never invoked", "invoked" (none has
                \* returned), "failed" (none has stored), "stored"

vars == <<city_id, lock, waitq, pc, call, loc, result, gets, log, population>>

NoCall ==
    [op |-> "none", cityname |-> <<>>, latitude |-> 0, longitude |-> 0,
     cinema_id |-> 0, movie_id |-> 0]

\* name, i : get_city_id_by_cityname's parameter and loop position;
\* seen : the catalog as it stood when the guard was taken;
\* resolved : what get_city_id_by_cityname returned;
\* init_movie : what init_movie returned; resp : the last HTTP response;
\* fetched : the cinema-detail document as parsed;
\* new_cinema_info : the re-serialized cinema detail.
NoLocals ==
    [name |-> <<>>, i |-> 0, seen |-> None, resolved |-> None,
     init_movie |-> None, resp |-> None, fetched |-> None,
     new_cinema_info |-> None]

\* Movie::new
Init ==
    /\ city_id = EmptyObject
    /\ lock = "free"
    /\ waitq = <<>>
    /\ pc = [t \in Tasks |-> "idle"]
    /\ call = [t \in Tasks |-> NoCall]
    /\ loc = [t \in Tasks |-> NoLocals]
    /\ result = [t \in Tasks |-> NoResult]
    /\ gets = [t \in Tasks |-> <<>>]
    /\ log = [t \in Tasks |-> <<>>]
    /\ population = "never invoked"

\* Parameter values of the tool calls.
Latitudes == {31, 39}
Longitudes == {121}
CinemaIds == {7}
MovieIds == {3}

\* A new request reaches task t: the previous call's record is dropped.
Begin(t, c, p, l, g, r) ==
    /\ pc[t] = "idle"
    /\ call' = [call EXCEPT ![t] = c]
    /\ pc' = [pc EXCEPT ![t] = p]
    /\ loc' = [loc EXCEPT ![t] = l]
    /\ gets' = [gets EXCEPT ![t] = g]
    /\ result' = [result EXCEPT ![t] = r]
    /\ log' = [log EXCEPT ![t] = <<>>]

\* The operation of task t returns r to its caller, logging events first.
Return(t, r, events) ==
    /\ pc' = [pc EXCEPT ![t] = "idle"]
    /\ result' = [result EXCEPT ![t] = r]
    /\ log' = [log EXCEPT ![t] = log[t] \o events]

\* The operation of task t issues GET g and suspends at p.
Fetch(t, g, p, events) ==
    /\ pc' = [pc EXCEPT ![t] = p]
    /\ gets' = [gets EXCEPT ![t] = Append(gets[t], g)]
    /\ log' = [log EXCEPT ![t] = log[t] \o events]
    /\ UNCHANGED result

\* A lock that hands out the guard without looking at its holder.
LockGranted_noExclusion(t) == waitq # <<>> /\ Head(waitq) = t

\* Mutex::lock().await completes for t: the mutex is free and t is the
\* longest-waiting task (tokio's Mutex is fair, first come first served).
LockGranted(t) == lock = "free" /\ waitq # <<>> /\ Head(waitq) = t

\* ---------------------------------------------------------- get_current_time

get_current_time(t) ==
    /\ Begin(t, [NoCall EXCEPT !.op = "get_current_time"], "idle", NoLocals,
             <<>>, Ok(<<Text("time", None)>>))
    /\ UNCHANGED <<city_id, lock, waitq, population>>

\* ------------------------------------------------- initialize / init_movie

\* initialize is called: init_movie asks for the lock.
initialize(t) ==
    /\ Begin(t, [NoCall EXCEPT !.op = "initialize"], "init_movie_lock",
             NoLocals, <<>>, NoResult)
    /\ waitq' = Append(waitq, t)
    /\ population' = (IF population = "never invoked" THEN "invoked"
                      ELSE population)
    /\ UNCHANGED <<city_id, lock>>

\* init_movie holds the guard and get_all_city_id sends its GET.
init_movie_locked(t) ==
    /\ pc[t] = "init_movie_lock"
    /\ LockGranted(t)
    /\ lock' = t
    /\ waitq' = Tail(waitq)
    /\ Fetch(t, Get("cities", <<>>), "get_all_city_id", <<>>)
    /\ UNCHANGED <<city_id, call, loc, population>>

\* What init_movie makes of get_all_city_id's result a.
init_movie(a) ==
    IF a.kind = "ok" THEN Ok(TRUE) ELSE invalid_request("response error")

\* An init_movie that fills the cache once and keeps what it holds.
init_movie_store_keepFirst(old, a) ==
    IF a.kind = "ok" /\ old = EmptyObject THEN a.content ELSE old

\* An init_movie that empties the cache when its fetch fails.
init_movie_store_clearOnError(old, a) ==
    IF a.kind = "ok" THEN a.content ELSE EmptyObject

\* An init_movie that stores only a value with a city array.
init_movie_store_validating(old, a) ==
    IF a.kind = "ok" /\ CtsArray(a.content) # None THEN a.content ELSE old

\* The value init_movie leaves behind the Mutex.
init_movie_store(old, a) == IF a.kind = "ok" THEN a.content ELSE old

\* An initialize that hands init_movie's error on to the client.
initialize_result_propagate(r) ==
    IF r.kind = "err" THEN r ELSE Ok(<<Text("server info", None)>>)

\* initialize: `let _ = self.init_movie().await; Ok(get_info)`.
initialize_result(r) == Ok(<<Text("server info", None)>>)

\* The cities response arrives: init_movie stores the value or gives up,
\* the guard is dropped, and initialize answers with the server info
\* whatever init_movie returned.
cities_response(t, docs) ==
    /\ pc[t] = "get_all_city_id"
    /\ \E resp \in HttpResponses(CitiesTexts(docs)) :
         LET a == get_all_city_id(resp) IN
         /\ city_id' = init_movie_store(city_id, a)
         /\ population' = (IF a.kind = "ok" \/ population = "stored"
                           THEN "stored" ELSE "failed")
         /\ loc' = [loc EXCEPT ![t].init_movie = Some(init_movie(a)),
                               ![t].resp = Some(resp)]
         /\ Return(t, initialize_result(init_movie(a)),
                   IF a.kind = "ok" THEN <<>>
                   ELSE <<"get response error", "get response error">>)
    /\ lock' = "free"
    /\ UNCHANGED <<waitq, call, gets>>

\* ------------------------------------------------ get_city_id_by_cityname

\* A loop that passes over an entry without a name or an id.
ScanStep_skipMalformed(data, name, i) ==
    IF i > Len(data)
    THEN [done |-> TRUE, r |-> invalid_params("name is error")]
    ELSE LET city == data[i] IN
         IF city.nm = None \/ city.id = None
         THEN [done |-> FALSE, r |-> NoResult]
         ELSE IF Contains(name, Unwrap(city.nm))
              THEN [done |-> TRUE, r |-> Ok(AsI32(Unwrap(city.id)))]
              ELSE [done |-> FALSE, r |-> NoResult]

\* One turn of `for city in data`, at position i of the array: the scan
\* either goes on to i + 1 or returns r.
ScanStep(data, name, i) ==
    IF i > Len(data)
    THEN [done |-> TRUE, r |-> invalid_params("name is error")]
    ELSE LET city == data[i] IN
         IF city.nm = None
         THEN [done |-> TRUE, r |-> invalid_request("data error")]
         ELSE IF Contains(name, Unwrap(city.nm))
              THEN IF city.id = None
                   THEN [done |-> TRUE, r |-> invalid_request("data error")]
                   ELSE [done |-> TRUE, r |-> Ok(AsI32(Unwrap(city.id)))]
              ELSE [done |-> FALSE, r |-> NoResult]

RECURSIVE ScanFrom(_, _, _)
ScanFrom(data, name, i) ==
    LET st == ScanStep(data, name, i) IN
    IF st.done THEN st.r ELSE ScanFrom(data, name, i + 1)

\* The whole function on one catalog value.
get_city_id_by_cityname(c, name) ==
    IF CtsArray(c) = None
    THEN invalid_request("asdfasfe array is error")
    ELSE ScanFrom(Unwrap(CtsArray(c)), name, 1)

\* The array the running scan reads: the value behind the Mutex.
ScannedArray == IF CtsArray(city_id) = None THEN <<>> ELSE Unwrap(CtsArray(city_id))

\* A tool that goes on to its next GET whatever get_city_id_by_cityname
\* returned.
resolve_return_ignoreError(t, r) ==
    LET id == IF r.kind = "ok" THEN r.content ELSE 0 IN
    IF call[t].op = "get_cinema_list"
    THEN Fetch(t, Get("moreCinemas", <<id, call[t].latitude, call[t].longitude>>),
               "moreCinemas", <<>>)
    ELSE Fetch(t, Get("detail", <<call[t].cinema_id>>), "detail", <<>>)

\* get_city_id_by_cityname returned r to the tool of task t, which either
\* gives up or issues its next GET.
resolve_return(t, r) ==
    IF r.kind = "err"
    THEN /\ Return(t, invalid_request("Failed to get city ID"),
                   <<"Failed to get city ID">>)
         /\ UNCHANGED gets
    ELSE IF call[t].op = "get_cinema_list"
         THEN Fetch(t, Get("moreCinemas",
                           <<r.content, call[t].latitude, call[t].longitude>>),
                    "moreCinemas", <<>>)
         ELSE Fetch(t, Get("detail", <<call[t].cinema_id>>), "detail", <<>>)

\* lock().await completes and city_data["cts"].as_array() is evaluated.
resolve_locked(t) ==
    /\ pc[t] = "resolve_lock"
    /\ LockGranted(t)
    /\ waitq' = Tail(waitq)
    /\ IF CtsArray(city_id) = None
       THEN LET r == invalid_request("asdfasfe array is error") IN
            /\ lock' = "free"
            /\ loc' = [loc EXCEPT ![t].seen = Some(city_id),
                                  ![t].resolved = Some(r)]
            /\ resolve_return(t, r)
       ELSE /\ lock' = t
            /\ loc' = [loc EXCEPT ![t].seen = Some(city_id), ![t].i = 1]
            /\ pc' = [pc EXCEPT ![t] = "resolve_scan"]
            /\ UNCHANGED <<result, gets, log>>
    /\ UNCHANGED <<city_id, call, population>>

\* A scan whose guard outlives the return of get_city_id_by_cityname.
resolve_scan_keepGuard(t) ==
    /\ pc[t] = "resolve_scan"
    /\ LET st == ScanStep(ScannedArray, loc[t].name, loc[t].i) IN
       IF st.done
       THEN /\ loc' = [loc EXCEPT ![t].resolved = Some(st.r)]
            /\ resolve_return(t, st.r)
            /\ UNCHANGED lock
       ELSE /\ loc' = [loc EXCEPT ![t].i = loc[t].i + 1]
            /\ UNCHANGED <<lock, pc, result, gets, log>>
    /\ UNCHANGED <<city_id, waitq, call, population>>

\* One turn of the loop, under the guard; on return the guard is dropped.
resolve_scan(t) ==
    /\ pc[t] = "resolve_scan"
    /\ LET st == ScanStep(ScannedArray, loc[t].name, loc[t].i) IN
       IF st.done
       THEN /\ lock' = "free"
            /\ loc' = [loc EXCEPT ![t].resolved = Some(st.r)]
            /\ resolve_return(t, st.r)
       ELSE /\ loc' = [loc EXCEPT ![t].i = loc[t].i + 1]
            /\ UNCHANGED <<lock, pc, result, gets, log>>
    /\ UNCHANGED <<city_id, waitq, call, population>>

\* ------------------------------------------------------ get_cinema_list

\* get_cinema_list is called: get_cityname_by_lat_lng sends its GET.
get_cinema_list(t, latitude, longitude) ==
    /\ Begin(t, [NoCall EXCEPT !.op = "get_cinema_list",
                               !.latitude = latitude, !.longitude = longitude],
             "latlng", NoLocals, <<Get("latlng", <<latitude, longitude>>)>>,
             NoResult)
    /\ UNCHANGED <<city_id, lock, waitq, population>>

\* get_cityname_by_lat_lng on the response to its GET.
get_cityname_by_lat_lng(resp) ==
    LET text == send_request(resp) IN
    IF text.kind = "err" THEN invalid_request("Failed to get city data")
    ELSE IF text.content.json = None
         THEN invalid_request("Failed to parse city data")
    ELSE IF Unwrap(text.content.json).city = None
         THEN invalid_request("Missing city data")
    ELSE Ok(Unwrap(Unwrap(text.content.json).city))

\* The reverse-geocode response arrives: on failure the tool gives up, on
\* success get_city_id_by_cityname asks for the lock.
latlng_response(t) ==
    /\ pc[t] = "latlng"
    /\ \E resp \in HttpResponses(LatLngTexts) :
         LET cityname == get_cityname_by_lat_lng(resp) IN
         IF cityname.kind = "err"
         THEN /\ Return(t, invalid_request("Failed to get city name"),
                        <<cityname.message, "Failed to get city name">>)
              /\ loc' = [loc EXCEPT ![t].resp = Some(resp)]
              /\ UNCHANGED waitq
         ELSE /\ pc' = [pc EXCEPT ![t] = "resolve_lock"]
              /\ loc' = [loc EXCEPT ![t].resp = Some(resp),
                                    ![t].name = cityname.content]
              /\ waitq' = Append(waitq, t)
              /\ UNCHANGED <<result, log>>
    /\ UNCHANGED <<city_id, lock, call, gets, population>>

\* The cinema-list response arrives.
moreCinemas_response(t) ==
    /\ pc[t] = "moreCinemas"
    /\ \E resp \in HttpResponses({Text("cinemas", None)}) :
         LET response == send_request(resp) IN
         /\ loc' = [loc EXCEPT ![t].resp = Some(resp)]
         /\ IF response.kind = "err"
            THEN Return(t, invalid_request("Failed to get cinema list"),
                        <<response.message, "Failed to get cinema list">>)
            ELSE Return(t, Ok(<<response.content>>), <<>>)
    /\ UNCHANGED <<city_id, lock, waitq, call, gets, population>>

\* ------------------------------------------------ get_cinema_information

\* get_cinema_information is called: get_city_id_by_cityname asks for the
\* lock.
get_cinema_information(t, cityname, cinema_id) ==
    /\ Begin(t, [NoCall EXCEPT !.op = "get_cinema_information",
                               !.cityname = cityname, !.cinema_id = cinema_id],
             "resolve_lock", [NoLocals EXCEPT !.name = cityname], <<>>,
             NoResult)
    /\ waitq' = Append(waitq, t)
    /\ UNCHANGED <<city_id, lock, population>>

\* cinema_json["data"][key].as_f64()
ReadF64(j, key) ==
    IF j.top = "object" /\ j.data = "object" THEN j[key] ELSE None

\* The coordinate the transformer is given: the value read, or 0.0.
OrZero(o) == IF o = None THEN F64(0) ELSE Unwrap(o)

\* The events logged while reading the two coordinates.
MissingEvents(j) ==
    (IF ReadF64(j, "lat") = None THEN <<"Missing latitude in response">> ELSE <<>>)
    \o (IF ReadF64(j, "lng") = None THEN <<"Missing longitude in response">> ELSE <<>>)

\* A rewrite that writes the coordinates back as they were read.
Rewritten_untransformed(j) ==
    SetCoordinates(j, OrZero(ReadF64(j, "lat")), OrZero(ReadF64(j, "lng")))

\* The document after both coordinates were rewritten.
Rewritten(j) ==
    LET w == gcj_to_wgs(OrZero(ReadF64(j, "lat")), OrZero(ReadF64(j, "lng")))
    IN  SetCoordinates(j, w[1], w[2])

\* The cinema-detail response arrives: fetch failure and parse failure end
\* the tool; otherwise the coordinates are read, transformed and written
\* back (which panics on a document that cannot take members), the document
\* is serialized and get_cinema_movie_info sends its GET.
detail_response(t) ==
    /\ pc[t] = "detail"
    /\ \E resp \in HttpResponses(DetailTexts) :
         LET cinema_info == send_request(resp) IN
         IF cinema_info.kind = "err"
         THEN /\ Return(t, invalid_request("Failed to get cinema info"),
                        <<cinema_info.message, "Failed to get cinema info",
                          "Failed to get cinema info">>)
              /\ loc' = [loc EXCEPT ![t].resp = Some(resp)]
              /\ UNCHANGED gets
         ELSE IF cinema_info.content.json = None
         THEN /\ Return(t, invalid_request("Failed to parse cinema data"),
                        <<"Failed to parse cinema JSON">>)
              /\ loc' = [loc EXCEPT ![t].resp = Some(resp)]
              /\ UNCHANGED gets
         ELSE LET cinema_json == Unwrap(cinema_info.content.json) IN
              IF IndexMutPanics(cinema_json)
              THEN /\ Return(t, Panicked, MissingEvents(cinema_json))
                   /\ loc' = [loc EXCEPT ![t].resp = Some(resp),
                                         ![t].fetched = Some(cinema_json)]
                   /\ UNCHANGED gets
              ELSE /\ Fetch(t, Get("shows", <<call[t].cinema_id,
                                             Unwrap(loc[t].resolved).content>>),
                            "shows", MissingEvents(cinema_json))
                   /\ loc' = [loc EXCEPT
                                ![t].resp = Some(resp),
                                ![t].fetched = Some(cinema_json),
                                ![t].new_cinema_info =
                                    Some(to_string(Rewritten(cinema_json)))]
    /\ UNCHANGED <<city_id, lock, waitq, call, population>>

\* A success value with the two payloads in the other order.
cinema_information_success_swapped(new_cinema_info, movie_info) ==
    Ok(<<movie_info, new_cinema_info>>)

\* CallToolResult::success(vec![Content::text(new_cinema_info),
\* Content::text(movie_info)])
cinema_information_success(new_cinema_info, movie_info) ==
    Ok(<<new_cinema_info, movie_info>>)

\* The showtime response arrives.
shows_response(t) ==
    /\ pc[t] = "shows"
    /\ \E resp \in HttpResponses({Text("shows", None)}) :
         LET movie_info == send_request(resp) IN
         /\ loc' = [loc EXCEPT ![t].resp = Some(resp)]
         /\ IF movie_info.kind = "err"
            THEN Return(t, invalid_request("Failed to get movie info"),
                        <<movie_info.message, "Failed to get movie info",
                          "Failed to get movie info">>)
            ELSE Return(t, cinema_information_success(
                               Unwrap(loc[t].new_cinema_info),
                               movie_info.content), <<>>)
    /\ UNCHANGED <<city_id, lock, waitq, call, gets, population>>

\* ------------------------------------------------- get_movie_detail_info

\* A get_movie_detail_info that resets the cache on its way.
get_movie_detail_info_clearing(t, movie_id) ==
    /\ Begin(t, [NoCall EXCEPT !.op = "get_movie_detail_info",
                               !.movie_id = movie_id],
             "intro", NoLocals, <<Get("intro", <<movie_id>>)>>, NoResult)
    /\ city_id' = EmptyObject
    /\ UNCHANGED <<lock, waitq, population>>

get_movie_detail_info(t, movie_id) ==
    /\ Begin(t, [NoCall EXCEPT !.op = "get_movie_detail_info",
                               !.movie_id = movie_id],
             "intro", NoLocals, <<Get("intro", <<movie_id>>)>>, NoResult)
    /\ UNCHANGED <<city_id, lock, waitq, population>>

intro_response(t) ==
    /\ pc[t] = "intro"
    /\ \E resp \in HttpResponses({Text("intro", None)}) :
         LET movie_info == send_request(resp) IN
         /\ loc' = [loc EXCEPT ![t].resp = Some(resp)]
         /\ IF movie_info.kind = "err"
            THEN Return(t, invalid_request("Failed to get movie info"),
                        <<movie_info.message, "Failed to get movie info">>)
            ELSE Return(t, Ok(<<movie_info.content>>), <<>>)
    /\ UNCHANGED <<city_id, lock, waitq, call, gets, population>>

\* ------------------------------------------------------- specifications

\* Two request tasks race on one Movie.
Next ==
    \E t \in Tasks :
        \/ get_current_time(t)
        \/ initialize(t)
        \/ init_movie_locked(t)
        \/ cities_response(t, RacingDocuments)
        \/ \E la \in Latitudes, lo \in Longitudes : get_cinema_list(t, la, lo)
        \/ latlng_response(t)
        \/ resolve_locked(t)
        \/ resolve_scan(t)
        \/ moreCinemas_response(t)
        \/ \E n \in InputNames, c \in CinemaIds : get_cinema_information(t, n, c)
        \/ detail_response(t)
        \/ shows_response(t)
        \/ \E m \in MovieIds : get_movie_detail_info(t, m)
        \/ intro_response(t)

Spec == Init /\ [][Next]_vars

\* What task t does once its call has started: lock().await completes, a
\* scan turn runs, the response to its outstanding GET arrives.
Progress(t) ==
    \/ init_movie_locked(t)
    \/ cities_response(t, RacingDocuments)
    \/ latlng_response(t)
    \/ resolve_locked(t)
    \/ resolve_scan(t)
    \/ moreCinemas_response(t)
    \/ detail_response(t)
    \/ shows_response(t)
    \/ intro_response(t)

\* The racing tasks under a fair executor and a network that answers every
\* GET: a started call is not left suspended forever. Clients are free
\* never to call.
FairSpec == Spec /\ \A t \in Tasks : WF_vars(Progress(t))

\* One session on its own: every catalog document up to MaxLen entries, and
\* the two operations that reach init_movie and get_city_id_by_cityname.
NextResolve ==
    \/ initialize("t1")
    \/ init_movie_locked("t1")
    \/ cities_response("t1", CatalogDocuments)
    \/ \E n \in InputNames, c \in CinemaIds : get_cinema_information("t1", n, c)
    \/ resolve_locked("t1")
    \/ resolve_scan("t1")
    \/ detail_response("t1")
    \/ shows_response("t1")

SpecResolve == Init /\ [][NextResolve]_vars

\* ------------------------------------------------------------------ claims

\* A populated catalog: a `cts` array whose entries all carry a string nm
\* and an integer id.
ValidCatalog(c) ==
    /\ c.tag = "catalog"
    /\ \A k \in 1..Len(c.cts) : c.cts[k].nm # None /\ c.cts[k].id # None

\* The positions of catalog c whose name is contained in the input.
Matches(c, name) ==
    {k \in 1..Len(c.cts) : c.cts[k].nm # None /\ Contains(name, Unwrap(c.cts[k].nm))}

First(S) == CHOOSE k \in S : \A j \in S : k <= j

\* The error values get_city_id_by_cityname returns.
CacheEmpty == invalid_request("asdfasfe array is error")
MalformedCatalog == invalid_request("data error")
NoSuchCity == invalid_params("name is error")

\* Task t has a finished get_city_id_by_cityname call on record.
Resolved(t) == loc[t].resolved # None

\* C1: on a populated catalog, get_city_id_by_cityname returns the id of the
\* first entry, in catalog order, whose name is contained in the input, and
\* the no-such-city error exactly when no entry's name is contained in it.
C1_ResolveReturnsFirstMatchId ==
    \A t \in Tasks :
        (Resolved(t) /\ ValidCatalog(Unwrap(loc[t].seen))) =>
            LET c == Unwrap(loc[t].seen)
                m == Matches(c, loc[t].name)
                r == Unwrap(loc[t].resolved)
            IN  IF m = {} THEN r = NoSuchCity
                ELSE /\ r.kind = "ok"
                     /\ I64(0, r.content) = Unwrap(c.cts[First(m)].id)

\* C1, the case at hand: a populated catalog, a match found, an id returned.
C1_Witness ==
    \E t \in Tasks :
        /\ Resolved(t)
        /\ ValidCatalog(Unwrap(loc[t].seen))
        /\ Len(Unwrap(loc[t].seen).cts) = 2
        /\ Matches(Unwrap(loc[t].seen), loc[t].name) = {2}
        /\ Unwrap(loc[t].resolved).kind = "ok"

\* C2: while init_movie has never been invoked on the Movie, every
\* get_city_id_by_cityname call fails with the cache-empty error, whatever
\* name it is given and whatever other tools ran before; the scan loop is
\* never entered.
C2_ResolveBeforePopulateIsCacheEmpty ==
    population = "never invoked" =>
        \A t \in Tasks :
            /\ pc[t] # "resolve_scan"
            /\ Resolved(t) => Unwrap(loc[t].resolved) = CacheEmpty

\* C2, the case at hand: no init_movie yet, one task has a finished resolve
\* and the other a finished tool call that succeeded.
C2_Witness ==
    /\ population = "never invoked"
    /\ \E t, u \in Tasks :
        /\ t # u
        /\ Resolved(t) /\ pc[t] = "idle"
        /\ result[u].kind = "ok"

\* C3: a get_city_id_by_cityname call computes its result on exactly one
\* catalog value: the value behind the Mutex does not change between taking
\* the guard and returning, and the result is the result of the whole scan
\* on the value that was there when the guard was taken.
C3_ResolveSeesOneCatalog ==
    \A t \in Tasks :
        /\ pc[t] = "resolve_scan" => city_id = Unwrap(loc[t].seen)
        /\ Resolved(t) =>
             Unwrap(loc[t].resolved) =
                 get_city_id_by_cityname(Unwrap(loc[t].seen), loc[t].name)

\* C3, the case at hand: a scan is past its first entry while an init_movie
\* call waits for the lock.
C3_Witness ==
    \E t, u \in Tasks :
        /\ pc[t] = "resolve_scan" /\ loc[t].i = 2
        /\ pc[u] = "init_movie_lock"

\* C4: at most one init_movie call has its catalog fetch outstanding (the
\* store follows in the same step); it holds the guard, and every other
\* init_movie call is waiting for the lock.
C4_OnePopulateInFlight ==
    /\ Cardinality({t \in Tasks : pc[t] = "get_all_city_id"}) <= 1
    /\ \A t \in Tasks : pc[t] = "get_all_city_id" => lock = t
    /\ \A t \in Tasks :
         pc[t] = "init_movie_lock" => \E k \in 1..Len(waitq) : waitq[k] = t

\* C4, the case at hand: two init_movie calls at once, one fetching and the
\* other waiting.
C4_Witness ==
    \E t, u \in Tasks :
        pc[t] = "get_all_city_id" /\ pc[u] = "init_movie_lock"

\* Task t is serving, or has served, the named tool.
Serving(t, op) == call[t].op = op

\* The tool of task t has returned (or its task has died).
Finished(t) == pc[t] = "idle" /\ call[t].op # "none"

\* C5: whenever get_cinema_information returns success, its first payload
\* is the fetched cinema detail with data.lat and data.lng replaced by the
\* transformer's two outputs for the coordinates read (0.0 for one that is
\* missing) and everything else kept; neither field still holds the value
\* that was fetched.
C5_SuccessCarriesTransformedCoordinates ==
    \A t \in Tasks :
        (Serving(t, "get_cinema_information") /\ result[t].kind = "ok") =>
            LET j == Unwrap(loc[t].fetched)
                lat == IF j.lat = None THEN F64(0) ELSE Unwrap(j.lat)
                lng == IF j.lng = None THEN F64(0) ELSE Unwrap(j.lng)
                out == Unwrap(result[t].content[1].json)
            IN  /\ out.top = "object" /\ out.data = "object"
                /\ out.lat = Some(gcj_to_wgs(lat, lng)[1])
                /\ out.lng = Some(gcj_to_wgs(lat, lng)[2])
                /\ out.rest = j.rest
                /\ out.lat # j.lat /\ out.lng # j.lng

\* C5, the case at hand: a success whose fetched document carried both
\* coordinates.
C5_Witness ==
    \E t \in Tasks :
        /\ Serving(t, "get_cinema_information") /\ result[t].kind = "ok"
        /\ Unwrap(loc[t].fetched).lat = Some(F64(31))
        /\ Unwrap(loc[t].fetched).lng = Some(F64(121))

\* C6: in get_cinema_information, a cinema-detail payload that parses as
\* JSON but lacks data.lat or data.lng never aborts the operation: 0.0
\* stands in for the missing field, the event is logged, and the operation
\* goes on to serialize the document and issue the showtime fetch.
C6_MissingCoordinateNeverAborts ==
    \A t \in Tasks :
        (/\ Serving(t, "get_cinema_information")
         /\ loc[t].fetched # None
         /\ \/ ReadF64(Unwrap(loc[t].fetched), "lat") = None
            \/ ReadF64(Unwrap(loc[t].fetched), "lng") = None) =>
            /\ result[t].kind # "panic"
            /\ Len(log[t]) >= 1
            /\ loc[t].new_cinema_info # None
            /\ Len(gets[t]) = 2 /\ gets[t][2].endpoint = "shows"

\* C6, the case at hand: a document without data.lat went through with the
\* substitute and the showtime fetch was issued.
C6_Witness ==
    \E t \in Tasks :
        /\ Serving(t, "get_cinema_information")
        /\ loc[t].fetched # None
        /\ ReadF64(Unwrap(loc[t].fetched), "lat") = None
        /\ loc[t].new_cinema_info # None
        /\ Unwrap(Unwrap(loc[t].new_cinema_info).json).lat =
               Some(gcj_to_wgs(F64(0), F64(121))[1])
        /\ pc[t] = "shows"

\* C7: get_cinema_list runs reverse-geocode fetch, city-id resolve and
\* cinema-list fetch in that order and stops at the first failure: a failed
\* reverse-geocode step leaves the cache unconsulted, issues no second GET
\* and returns "Failed to get city name"; a failed resolve issues no second
\* GET; the cinema-list GET is issued only after both succeeded, with the
\* resolved id and the caller's coordinates.
C7_CinemaListStepOrder ==
    \A t \in Tasks :
        Serving(t, "get_cinema_list") =>
            LET g == gets[t]
                la == call[t].latitude
                lo == call[t].longitude
                consulted ==
                    \/ loc[t].seen # None
                    \/ pc[t] \in {"resolve_lock", "resolve_scan"}
                    \/ lock = t
                    \/ \E k \in 1..Len(waitq) : waitq[k] = t
                answered == pc[t] # "latlng" /\ Len(g) = 1
            IN  /\ Len(g) \in {1, 2}
                /\ g[1] = Get("latlng", <<la, lo>>)
                /\ pc[t] = "latlng" => (Len(g) = 1 /\ ~consulted)
                /\ answered =>
                     LET cityname == get_cityname_by_lat_lng(Unwrap(loc[t].resp))
                     IN  IF cityname.kind = "err"
                         THEN /\ ~consulted
                              /\ pc[t] = "idle"
                              /\ result[t] = invalid_request("Failed to get city name")
                         ELSE /\ consulted
                              /\ loc[t].name = cityname.content
                /\ (Resolved(t) /\ Unwrap(loc[t].resolved).kind = "err") =>
                     /\ Len(g) = 1
                     /\ pc[t] = "idle"
                     /\ result[t] = invalid_request("Failed to get city ID")
                /\ Len(g) = 2 =>
                     /\ Resolved(t)
                     /\ Unwrap(loc[t].resolved).kind = "ok"
                     /\ loc[t].name \in InputNames
                     /\ g[2] = Get("moreCinemas",
                                   <<Unwrap(loc[t].resolved).content, la, lo>>)

\* C7, the case at hand: one call stopped at a failed reverse-geocode step,
\* another got as far as the cinema-list fetch.
C7_Witness ==
    \E t, u \in Tasks :
        /\ Serving(t, "get_cinema_list")
        /\ result[t] = invalid_request("Failed to get city name")
        /\ Serving(u, "get_cinema_list")
        /\ pc[u] = "moreCinemas"

\* C8: get_cinema_information runs city-id resolve, cinema-detail fetch,
\* parse and coordinate rewrite, showtime fetch in that order and stops at
\* the first failure: a failed resolve issues no GET at all, a failed
\* cinema-detail fetch or parse issues no showtime GET; success returns
\* exactly two payloads, the rewritten cinema detail and then the showtime
\* listing, and every other outcome returns no payload.
C8_CinemaInformationStepOrder ==
    \A t \in Tasks :
        Serving(t, "get_cinema_information") =>
            LET g == gets[t]
                cid == call[t].cinema_id
            IN  /\ Len(g) <= 2
                /\ (Resolved(t) /\ Unwrap(loc[t].resolved).kind = "err") =>
                     /\ g = <<>>
                     /\ pc[t] = "idle"
                     /\ result[t].kind = "err"
                /\ Len(g) >= 1 =>
                     /\ Resolved(t)
                     /\ Unwrap(loc[t].resolved).kind = "ok"
                     /\ g[1] = Get("detail", <<cid>>)
                /\ (Len(g) = 1 /\ pc[t] = "idle") =>
                     /\ result[t].kind \in {"err", "panic"}
                     /\ \/ send_request(Unwrap(loc[t].resp)).kind = "err"
                        \/ send_request(Unwrap(loc[t].resp)).content.json = None
                        \/ loc[t].fetched # None
                /\ (/\ Len(g) = 1
                    /\ pc[t] # "detail"
                    /\ \/ send_request(Unwrap(loc[t].resp)).kind = "err"
                       \/ send_request(Unwrap(loc[t].resp)).content.json = None) =>
                     (pc[t] = "idle" /\ result[t].kind = "err")
                /\ Len(g) = 2 =>
                     /\ loc[t].fetched # None
                     /\ loc[t].new_cinema_info # None
                     /\ g[2] = Get("shows",
                                   <<cid, Unwrap(loc[t].resolved).content>>)
                /\ result[t].kind = "ok" =>
                     /\ Len(g) = 2
                     /\ Len(result[t].content) = 2
                     /\ result[t].content[1] = Unwrap(loc[t].new_cinema_info)
                     /\ result[t].content[1].raw = "serialized"
                     /\ result[t].content[2] = Unwrap(Unwrap(loc[t].resp).body)
                     /\ result[t].content[2].raw = "shows"
                /\ result[t].kind # "ok" => result[t].content = <<>>

\* C8, the case at hand: one call returned its two payloads, another
\* stopped after a cinema-detail fetch that failed.
C8_Witness ==
    \E t, u \in Tasks :
        /\ Serving(t, "get_cinema_information")
        /\ result[t].kind = "ok"
        /\ Serving(u, "get_cinema_information")
        /\ result[u] = invalid_request("Failed to get cinema info")
        /\ Len(gets[u]) = 1

\* The stage labels the three tools attach to their errors.
StageLabels ==
    {"Failed to get city name", "Failed to get city ID",
     "Failed to get cinema list", "Failed to get cinema info",
     "Failed to parse cinema data", "get text error",
     "Failed to get movie info"}

RpcTools == {"get_cinema_list", "get_cinema_information", "get_movie_detail_info"}

\* C9: every failure of get_cinema_list, get_cinema_information or
\* get_movie_detail_info reaches the caller as an invalid-request error with
\* one of the fixed stage labels and no data; the error of the inner call is
\* not passed on.
C9_FailuresAreLabelledInvalidRequest ==
    \A t \in Tasks :
        (call[t].op \in RpcTools /\ Finished(t) /\ result[t].kind # "ok") =>
            /\ result[t].kind = "err"
            /\ result[t].code = "invalid_request"
            /\ result[t].message \in StageLabels
            /\ result[t].data = None
            /\ Resolved(t) => result[t] # Unwrap(loc[t].resolved)

\* C9, the case at hand: get_city_id_by_cityname failed with invalid-params
\* "name is error" and the caller got the stage label instead.
C9_Witness ==
    \E t \in Tasks :
        /\ call[t].op \in RpcTools /\ Finished(t)
        /\ Resolved(t) /\ Unwrap(loc[t].resolved) = NoSuchCity
        /\ result[t] = invalid_request("Failed to get city ID")

\* What C10 says of initialize itself: it issues the cities GET once, and
\* whenever it returns it returns success, whatever init_movie returned.
InitializePopulatesOnceAndSucceeds ==
    \A t \in Tasks :
        Serving(t, "initialize") =>
            /\ Len(gets[t]) <= 1
            /\ pc[t] = "init_movie_lock" <=> gets[t] = <<>>
            /\ Finished(t) =>
                 /\ gets[t] = <<Get("cities", <<>>)>>
                 /\ loc[t].init_movie # None
                 /\ result[t].kind = "ok"

CityTools == {"get_cinema_list", "get_cinema_information"}

\* C10 as stated: initialize populates once and always succeeds, and while
\* populate has failed and never succeeded, every get_cinema_list and
\* get_cinema_information call fails at the city-id stage.
C10_FailedPopulateFailsAtCityId ==
    /\ InitializePopulatesOnceAndSucceeds
    /\ population = "failed" =>
         \A t \in Tasks :
             (call[t].op \in CityTools /\ Finished(t)) =>
                 result[t] = invalid_request("Failed to get city ID")

\* C10 as amended: initialize populates once and always succeeds, and while
\* populate has failed and never succeeded, no get_cinema_list or
\* get_cinema_information call gets past the city-id stage: each fails
\* there, or, for a get_cinema_list call whose reverse-geocode step failed,
\* before it at the city-name stage.
C10_FailedPopulateFailsByCityId ==
    /\ InitializePopulatesOnceAndSucceeds
    /\ population = "failed" =>
         \A t \in Tasks :
             /\ Serving(t, "get_cinema_information") => gets[t] = <<>>
             /\ Serving(t, "get_cinema_list") => Len(gets[t]) = 1
             /\ (call[t].op \in CityTools /\ Finished(t)) =>
                  \/ result[t] = invalid_request("Failed to get city ID")
                  \/ /\ Serving(t, "get_cinema_list")
                     /\ ~Resolved(t)
                     /\ result[t] = invalid_request("Failed to get city name")

\* C10, the case at hand: an initialize whose populate failed has returned
\* success, and a tool call made on the unpopulated cache failed at the
\* city-id stage.
C10_Witness ==
    /\ population = "failed"
    /\ \E t, u \in Tasks :
        /\ Serving(t, "initialize") /\ Finished(t)
        /\ Unwrap(loc[t].init_movie).kind = "err"
        /\ result[t].kind = "ok"
        /\ call[u].op \in CityTools /\ Finished(u)
        /\ result[u] = invalid_request("Failed to get city ID")

\* The GET succeeded: a response arrived, with a success status and a body
\* that can be read.
RequestSucceeded(resp) ==
    resp.send = "ok" /\ resp.status = 200 /\ resp.body # None

\* C11: the fetcher fails on every transport error, every non-decodable
\* body and every response with a non-success status, and hands the body on
\* only when the request succeeded: get_movie_detail_info, which returns
\* what send_request returns, succeeds exactly on a successful request, and
\* init_movie, which returns what get_all_city_id returns, succeeds exactly
\* on a successful request with a JSON body.
C11_FetcherFailsOnEveryFailure ==
    \A t \in Tasks :
        /\ (Serving(t, "get_movie_detail_info") /\ Finished(t)) =>
             /\ result[t].kind = "ok" <=> RequestSucceeded(Unwrap(loc[t].resp))
             /\ result[t].kind = "ok" =>
                  result[t].content = <<Unwrap(Unwrap(loc[t].resp).body)>>
        /\ (Serving(t, "initialize") /\ Finished(t)) =>
             (Unwrap(loc[t].init_movie).kind = "ok" <=>
                 /\ RequestSucceeded(Unwrap(loc[t].resp))
                 /\ Unwrap(Unwrap(loc[t].resp).body).json # None)

\* C11, the case at hand: a GET whose send() failed and a GET whose body is
\* not JSON each ended in the failure outcome.
C11_Witness ==
    \E t, u \in Tasks :
        /\ Serving(t, "get_movie_detail_info") /\ Finished(t)
        /\ Unwrap(loc[t].resp) = SendFailed
        /\ result[t].kind = "err"
        /\ Serving(u, "initialize") /\ Finished(u)
        /\ Unwrap(loc[u].resp).body = Some(NotJsonText)
        /\ Unwrap(loc[u].init_movie).kind = "err"

\* The positions of catalog c at which the scan for name stops: an entry
\* without a string name, or one whose name is contained in name.
Decisive(c, name) ==
    {k \in 1..Len(c.cts) :
        c.cts[k].nm = None \/ Contains(name, Unwrap(c.cts[k].nm))}

PopulateReturns(t) == pc[t] = "get_all_city_id" /\ pc'[t] = "idle"

\* The JSON value of the cities response task t received.
Payload(t) == Unwrap(Unwrap(Unwrap(loc[t].resp).body).json)

\* C13: every init_movie that succeeds leaves behind the Mutex exactly the
\* value it fetched, whatever was stored before, so a later call overwrites
\* an earlier one; fetching the stored value again changes neither the
\* stored value nor the result of any get_city_id_by_cityname on it.
C13_PopulateStoresItsPayload ==
    [][\A t \in Tasks :
         (PopulateReturns(t) /\ loc'[t].init_movie = Some(Ok(TRUE))) =>
            /\ city_id' = Payload(t)'
            /\ Payload(t)' = city_id =>
                 /\ city_id' = city_id
                 /\ \A name \in InputNames :
                      get_city_id_by_cityname(city_id', name)
                          = get_city_id_by_cityname(city_id, name)]_vars

\* C13, the case at hand: two init_movie calls succeeded on different
\* payloads and the cache holds the payload of one of them.
C13_Witness ==
    \E t, u \in Tasks :
        /\ Serving(t, "initialize") /\ Finished(t)
        /\ Serving(u, "initialize") /\ Finished(u)
        /\ loc[t].init_movie = Some(Ok(TRUE))
        /\ loc[u].init_movie = Some(Ok(TRUE))
        /\ Payload(t) # Payload(u)
        /\ Payload(t).tag = "catalog"
        /\ city_id = Payload(u)

\* The positions at which a task waits for the response to a GET.
FetchPcs == {"get_all_city_id", "latlng", "moreCinemas", "detail", "shows", "intro"}

\* The step in which the response to task t's outstanding GET arrives.
ResponseArrives(t) == pc[t] \in FetchPcs /\ pc'[t] # pc[t]

\* The GETs of one invocation, in order: a prefix of the operation's fetch
\* steps, each issued once.
GetsInOrder(t, endpoints) ==
    /\ Len(gets[t]) <= Len(endpoints)
    /\ \A k \in 1..Len(gets[t]) : gets[t][k].endpoint = endpoints[k]

\* C14: no GET is issued twice: init_movie issues exactly one GET,
\* get_movie_detail_info exactly one, get_cinema_list at most two
\* (reverse-geocode, then cinema list), get_cinema_information at most two
\* (cinema detail, then showtimes); and a GET that failed (transport error,
\* non-success status or unreadable body) ends the operation at once with a
\* failure, without a further GET.
C14_NoRetryFailFast ==
    /\ [](\A t \in Tasks :
            /\ Serving(t, "get_current_time") => gets[t] = <<>>
            /\ Serving(t, "initialize") =>
                 /\ GetsInOrder(t, <<"cities">>)
                 /\ Finished(t) => Len(gets[t]) = 1
            /\ Serving(t, "get_movie_detail_info") =>
                 gets[t] = <<Get("intro", <<call[t].movie_id>>)>>
            /\ Serving(t, "get_cinema_list") =>
                 GetsInOrder(t, <<"latlng", "moreCinemas">>)
            /\ Serving(t, "get_cinema_information") =>
                 GetsInOrder(t, <<"detail", "shows">>))
    /\ [][\A t \in Tasks :
            (ResponseArrives(t) /\ ~RequestSucceeded(Unwrap(loc'[t].resp))) =>
                /\ gets'[t] = gets[t]
                /\ pc'[t] = "idle"
                /\ IF pc[t] = "get_all_city_id"
                   THEN Unwrap(loc'[t].init_movie).kind = "err"
                   ELSE result'[t].kind = "err"]_vars

\* C14, the case at hand: get_cinema_list issued its second GET after its
\* first one was answered with a non-success status.
C14_Witness ==
    \E t \in Tasks :
        /\ Serving(t, "get_cinema_list")
        /\ pc[t] = "moreCinemas"
        /\ Unwrap(loc[t].resp).status = 500
        /\ Len(gets[t]) = 2

\* The operations that never go near self.city_id.
CacheFreeTools == {"get_movie_detail_info", "get_current_time"}

\* C15: the value behind the Mutex changes only in the step in which an
\* init_movie returns; every step of get_cinema_list, get_cinema_information,
\* get_city_id_by_cityname, get_movie_detail_info and get_current_time,
\* succeeding or failing, leaves it as it was. get_movie_detail_info and
\* get_current_time never ask for the lock, never hold it and never read the
\* cache: get_current_time always succeeds and get_movie_detail_info
\* succeeds whenever its own GET delivered a body, whatever the cache holds.
C15_OnlyPopulateWritesCache ==
    /\ [][city_id' # city_id =>
            \E t \in Tasks : Serving(t, "initialize") /\ PopulateReturns(t)]_vars
    /\ [](\A t \in Tasks :
            call[t].op \in CacheFreeTools =>
                /\ lock # t
                /\ \A k \in 1..Len(waitq) : waitq[k] # t
                /\ loc[t].seen = None
                /\ (Serving(t, "get_current_time") /\ Finished(t)) =>
                       result[t].kind = "ok"
                /\ (Serving(t, "get_movie_detail_info") /\ Finished(t)) =>
                       (result[t].kind = "ok" <=>
                           /\ Unwrap(loc[t].resp).send = "ok"
                           /\ Unwrap(loc[t].resp).body # None))

\* C15, the case at hand: on a populated cache one lookup failed and a
\* get_movie_detail_info succeeded, and the cache still holds the catalog;
\* the same tool also succeeds on a cache no init_movie ever filled.
C15_Witness ==
    \E t, u \in Tasks :
        /\ Serving(t, "get_cinema_information") /\ Finished(t)
        /\ result[t].kind = "err"
        /\ Serving(u, "get_movie_detail_info") /\ Finished(u)
        /\ result[u].kind = "ok"
        /\ population = "stored"
        /\ city_id.tag = "catalog" /\ Len(city_id.cts) > 0
        /\ Unwrap(loc[t].seen) = city_id

\* The cities response is a transport error, has no readable body, or has a
\* body that is not JSON.
CatalogFetchFailed(resp) ==
    \/ resp.send = "err"
    \/ resp.body = None
    \/ Unwrap(resp.body).json = None

\* C16: when the cities GET of an init_movie ends in a transport error or a
\* body that does not decode, the step in which init_movie returns yields an
\* error, frees the lock and leaves the stored value as it was before the
\* call, so every get_city_id_by_cityname gives the same result on it as
\* before.
C16_FailedPopulateKeepsCache ==
    [][\A t \in Tasks :
         (PopulateReturns(t) /\ CatalogFetchFailed(Unwrap(loc'[t].resp))) =>
            /\ Unwrap(loc'[t].init_movie) = invalid_request("response error")
            /\ lock = t /\ lock' = "free"
            /\ city_id' = city_id
            /\ \A name \in InputNames :
                 get_city_id_by_cityname(city_id', name)
                     = get_city_id_by_cityname(city_id, name)]_vars

\* C16, the case at hand: an init_movie has failed, the lock is with a
\* later get_city_id_by_cityname, and that scan runs on a catalog an
\* earlier init_movie stored.
C16_Witness ==
    \E t, u \in Tasks :
        /\ Serving(t, "initialize") /\ Finished(t)
        /\ CatalogFetchFailed(Unwrap(loc[t].resp))
        /\ Unwrap(loc[t].init_movie).kind = "err"
        /\ population = "stored"
        /\ city_id.tag = "catalog" /\ Len(city_id.cts) > 0
        /\ pc[u] = "resolve_scan" /\ lock = u
        /\ loc[u].seen = Some(city_id)

\* C17: init_movie does not look into what it fetched: whenever the cities
\* response carries a body that decodes as JSON, init_movie returns Ok and
\* that value is stored, with or without a city array and whatever was
\* stored before; on a stored value without a city array every
\* get_city_id_by_cityname returns the error it returns on the initial
\* json!({}), for every name.
C17_PopulateDoesNotValidate ==
    /\ [][\A t \in Tasks :
            (PopulateReturns(t) /\ ~CatalogFetchFailed(Unwrap(loc'[t].resp))) =>
                /\ loc'[t].init_movie = Some(Ok(TRUE))
                /\ city_id' = Payload(t)'
                /\ population' = "stored"]_vars
    /\ [](/\ CtsArray(city_id) = None =>
               \A name \in InputNames :
                   /\ get_city_id_by_cityname(city_id, name) = CacheEmpty
                   /\ get_city_id_by_cityname(city_id, name)
                        = get_city_id_by_cityname(EmptyObject, name)
          /\ \A t \in Tasks :
               (Resolved(t) /\ CtsArray(Unwrap(loc[t].seen)) = None) =>
                   Unwrap(loc[t].resolved) = CacheEmpty)

\* C17, the case at hand: one init_movie stored a catalog with entries, a
\* later successful init_movie replaced it by a value without a city array,
\* and a get_city_id_by_cityname on that value failed as on an empty cache.
C17_Witness ==
    \E t, u \in Tasks :
        /\ Serving(u, "initialize") /\ Finished(u)
        /\ loc[u].init_movie = Some(Ok(TRUE))
        /\ ValidCatalog(Payload(u)) /\ Len(Payload(u).cts) > 0
        /\ population = "stored"
        /\ city_id = NoCtsDocument
        /\ Serving(t, "get_cinema_information") /\ Resolved(t)
        /\ loc[t].seen = Some(NoCtsDocument)
        /\ Unwrap(loc[t].resolved) = CacheEmpty

\* The positions at which a task waits for self.city_id.lock().
LockPcs == {"init_movie_lock", "resolve_lock"}

\* Task t is queued for the lock.
Awaits(t) == \E k \in 1..Len(waitq) : waitq[k] = t

\* C18: a task that holds the lock is either inside init_movie waiting for
\* the cities response or inside the in-memory scan of
\* get_city_id_by_cityname; once get_city_id_by_cityname has returned, on
\* a match, on no match or on a malformed entry, its task no longer holds
\* the lock, so a task waiting for a reverse-geocode, cinema-list,
\* cinema-detail, showtime or movie-detail response never holds it; and a
\* task queued for the lock does not hold it and is queued once.
C18_OnlyPopulateFetchesUnderLock ==
    \A t \in Tasks :
        /\ lock = t => pc[t] \in {"get_all_city_id", "resolve_scan"}
        /\ pc[t] = "resolve_scan" => lock = t
        /\ (lock = t /\ pc[t] \in FetchPcs) =>
               /\ Serving(t, "initialize")
               /\ gets[t] = <<Get("cities", <<>>)>>
        /\ pc[t] \in (FetchPcs \ {"get_all_city_id"}) => lock # t
        /\ Resolved(t) => lock # t
        /\ Awaits(t) <=> pc[t] \in LockPcs
        /\ Awaits(t) => lock # t
        /\ \A j, k \in 1..Len(waitq) : (waitq[j] = t /\ waitq[k] = t) => j = k

\* C18, the case at hand: one task scanned under the lock, found its city
\* and now waits for the cinema-detail response without the lock, while an
\* init_movie holds the lock across its cities GET.
C18_Witness ==
    \E t, u \in Tasks :
        /\ pc[t] = "detail" /\ Resolved(t)
        /\ Unwrap(loc[t].resolved).kind = "ok"
        /\ lock = u /\ pc[u] = "get_all_city_id"

\* The call of task t handed a result, Ok or Err, to its caller.
Returned(t) == pc[t] = "idle" /\ result[t].kind \in {"ok", "err"}

\* C19: under a fair executor and with every GET answered, every started
\* initialize, init_movie and tool call eventually returns and the lock is
\* eventually free; a get_city_id_by_cityname that waits for the lock while
\* an init_movie holds it stays at lock().await as long as that init_movie
\* waits for its cities response, and afterwards completes.
C19_EveryCallReturns ==
    /\ \A t \in Tasks : (pc[t] # "idle") ~> Returned(t)
    /\ (lock # "free") ~> (lock = "free")
    /\ \A t \in Tasks : (pc[t] = "resolve_lock") ~> Resolved(t)
    /\ [][\A t, u \in Tasks :
            (/\ pc[t] = "resolve_lock"
             /\ lock = u /\ pc[u] = "get_all_city_id"
             /\ pc'[u] = "get_all_city_id") => pc'[t] = "resolve_lock"]_vars

\* C19, the case at hand: a get_cinema_information was started, waited for
\* the lock behind an init_movie, got it, and ended in a panic instead of
\* returning.
C19_Witness ==
    \E t \in Tasks :
        /\ Serving(t, "get_cinema_information") /\ Finished(t)
        /\ Resolved(t)
        /\ result[t] = Panicked
        /\ lock = "free"

\* The entry of the scanned catalog at which task t's scan stopped.
MatchedEntry(t) ==
    LET c == Unwrap(loc[t].seen) IN c.cts[First(Decisive(c, loc[t].name))]

\* C20: get_city_id_by_cityname hands out the matched entry's i64 id cast
\* to i32 with no range check: a resolve that found a named entry with an
\* id always succeeds; its result is the catalog id when the id lies in the
\* i32 range, and otherwise the low 32 bits of the id read as a signed
\* number, which is not the catalog id.
C20_ResolveNarrowsWithoutCheck ==
    \A t \in Tasks :
        (/\ Resolved(t)
         /\ CtsArray(Unwrap(loc[t].seen)) # None
         /\ Decisive(Unwrap(loc[t].seen), loc[t].name) # {}
         /\ MatchedEntry(t).nm # None
         /\ MatchedEntry(t).id # None) =>
            LET id == Unwrap(MatchedEntry(t).id)
                r == Unwrap(loc[t].resolved)
            IN  /\ r.kind = "ok"
                /\ r.content = id.r
                /\ FitsI32(id) => I64(0, r.content) = id
                /\ ~FitsI32(id) => I64(0, r.content) # id

\* C20, the case at hand: the matched entry's id is 2^32 - 5 and the
\* resolve returned -5.
C20_Witness ==
    \E t \in Tasks :
        /\ Resolved(t)
        /\ Unwrap(loc[t].resolved) = Ok(-5)
        /\ MatchedEntry(t).id = Some(I64(1, -5))

====
